---- MODULE Spec2Model ----
(***************************************************************************)
(* A model of common/content/mappings.js: the Map class and the Mappings   *)
(* singleton of vimperator-labs.                                           *)
(*                                                                         *)
(* Map objects live on a heap (the sequence maps, an object's identity is  *)
(* its index) because one Map object is pushed into the table of every one *)
(* of its modes and removeMap() splices its names array in place.          *)
(* Key strings are sequences of one-character strings, so that prefixes,   *)
(* lengths and the two regular expressions of the code can be computed.    *)
(***************************************************************************)
EXTENDS Integers, Sequences, FiniteSets, TLC

VARIABLES
    main,       \* default mappings: mode -> sequence of Map ids
    user,       \* user created mappings: mode -> sequence of Map ids
    maps,       \* the heap of Map objects ever constructed
    repeat,     \* mappings.repeat: <<>> (undefined) or <<closure>>
    invoked,    \* the calls of Map actions made by the last operation
    returned,   \* what the last execute() gave back to its caller
    mapleader,  \* the "mapleader" variable: {} (unset) or {string}
    lastOp      \* the operation that produced this state

vars == <<main, user, maps, repeat, invoked, returned, mapleader, lastOp>>

\* ------------------------------------------------------------------ bounds

\* Map objects constructed in one run.
MaxMaps == 2

\* ------------------------------------------------------------------- modes

NORMAL == "NORMAL"
VISUAL == "VISUAL"
PLUGIN == "PLUGIN"
\* A falsy mode argument (get and getDefault replace it by modes.NORMAL).
NoMode == ""
\* The modes known when Mappings() is constructed (for (let mode in modes)).
modes == {NORMAL, VISUAL}

\* "return null" of getMap; Map ids start at 1.
Null == 0

\* -------------------------------------------------------------- key strings

Dot == <<".">>
LeaderToken == <<"<", "l", "e", "a", "d", "e", "r", ">">>
DefaultLeader == <<"\\">>

\* String.toLowerCase on the letters the model's key strings use.
ToLower(c) ==
    CASE c = "L" -> "l"
      [] c = "E" -> "e"
      [] c = "A" -> "a"
      [] c = "D" -> "d"
      [] c = "R" -> "r"
      [] c = "C" -> "c"
      [] c = "N" -> "n"
      [] c = "O" -> "o"
      [] c = "P" -> "p"
      [] OTHER -> c

LowerStr(s) == [i \in 1..Len(s) |-> ToLower(s[i])]

\* name.indexOf(prefix) == 0
StartsWith(name, prefix) ==
    /\ Len(prefix) <= Len(name)
    /\ SubSeq(name, 1, Len(prefix)) = prefix

\* /^<.+>/.test(name): "<", one character or more, then a ">".
LooksBracketed(name) ==
    /\ Len(name) >= 3
    /\ name[1] = "<"
    /\ \E j \in 3..Len(name) : name[j] = ">"

\* events.canonicalKeys: the modifier of a bracketed key is written in upper
\* case, "<c-x>" and "<C-x>" both become "<C-x>"; every other character is kept.
RECURSIVE canonicalFrom(_, _)
canonicalFrom(s, i) ==
    IF i > Len(s) THEN <<>>
    ELSE IF /\ i >= 2
            /\ i < Len(s)
            /\ s[i - 1] = "<"
            /\ s[i] = "c"
            /\ s[i + 1] = "-"
         THEN <<"C">> \o canonicalFrom(s, i + 1)
         ELSE <<s[i]>> \o canonicalFrom(s, i + 1)

canonicalKeys(s) == canonicalFrom(s, 1)

\* mappings.getMapLeader()
getMapLeader ==
    IF mapleader = {} THEN DefaultLeader ELSE CHOOSE l \in mapleader : TRUE

\* The index of the first match of /<Leader>/i in s, 0 when there is none.
RECURSIVE leaderAt(_, _)
leaderAt(s, i) ==
    IF i + Len(LeaderToken) - 1 > Len(s) THEN 0
    ELSE IF LowerStr(SubSeq(s, i, i + Len(LeaderToken) - 1)) = LeaderToken
         THEN i
         ELSE leaderAt(s, i + 1)

\* The replacement text of String.prototype.replace for a replacement given
\* as a string: "$$" stands for "$", "$&" for the match, "$`" for the text
\* before the match and "$'" for the text after it; any other character, a
\* "$" before anything else included, stands for itself.
RECURSIVE getSubstitution(_, _, _, _, _)
getSubstitution(matched, before, after, replacement, i) ==
    IF i > Len(replacement) THEN <<>>
    ELSE IF replacement[i] = "$" /\ i < Len(replacement)
         THEN CASE replacement[i + 1] = "$" ->
                     <<"$">> \o getSubstitution(matched, before, after, replacement, i + 2)
                [] replacement[i + 1] = "&" ->
                     matched \o getSubstitution(matched, before, after, replacement, i + 2)
                [] replacement[i + 1] = "`" ->
                     before \o getSubstitution(matched, before, after, replacement, i + 2)
                [] replacement[i + 1] = "'" ->
                     after \o getSubstitution(matched, before, after, replacement, i + 2)
                [] OTHER ->
                     <<"$">> \o getSubstitution(matched, before, after, replacement, i + 1)
         ELSE <<replacement[i]>>
              \o getSubstitution(matched, before, after, replacement, i + 1)

\* keyString.replace(/<Leader>/i, mappings.getMapLeader()): the first match only.
expandLeader(keyString) ==
    LET i == leaderAt(keyString, 1) IN
    IF i = 0 THEN keyString
    ELSE LET before == SubSeq(keyString, 1, i - 1)
             matched == SubSeq(keyString, i, i + Len(LeaderToken) - 1)
             after == SubSeq(keyString, i + Len(LeaderToken), Len(keyString))
         IN before \o getSubstitution(matched, before, after, getMapLeader, 1) \o after

\* --------------------------------------------------------------- class Map

\* The extraInfo hash with nothing set.
NoExtra ==
    [arg |-> FALSE, count |-> FALSE, motion |-> FALSE, noremap |-> FALSE,
     rhs |-> <<>>, user |-> FALSE]

\* new Map(modes, keys, description, action, extraInfo). rhs is <<>> for null:
\* extraInfo.rhs || null makes the empty string null too.
Map(ms, keys, action, extraInfo) ==
    [modes   |-> ms,
     names   |-> [i \in 1..Len(keys) |-> canonicalKeys(keys[i])],
     action  |-> action,
     arg     |-> extraInfo.arg,
     count   |-> extraInfo.count,
     motion  |-> extraInfo.motion,
     noremap |-> extraInfo.noremap,
     rhs     |-> extraInfo.rhs,
     user    |-> extraInfo.user]

\* Map.prototype.hasName, on a names array.
hasName(names, name) == \E j \in 1..Len(names) : names[j] = name

\* this.names[0] != ".": names[0] of an empty array is undefined, which differs.
primaryIsNot(names, token) == names = <<>> \/ names[1] # token

\* m.names[0] == map.names[0], undefined == undefined included.
samePrimary(a, b) ==
    \/ a = <<>> /\ b = <<>>
    \/ a # <<>> /\ b # <<>> /\ a[1] = b[1]

\* ----------------------------------------------------------- private section

\* stack[mode] || []
tableOf(stack, mode) == IF mode \in DOMAIN stack THEN stack[mode] ELSE <<>>

\* array.splice(i, 1)
splice(seq, i) == SubSeq(seq, 1, i - 1) \o SubSeq(seq, i + 1, Len(seq))

\* The forEach of addMap: where[mode].push(map) for each mode of the map, the
\* table of a mode that has none being created first.
RECURSIVE pushAll(_, _, _, _)
pushAll(where, ms, id, k) ==
    IF k > Len(ms) THEN where
    ELSE LET mode == ms[k]
             old  == tableOf(where, mode)
             next == [m \in DOMAIN where \cup {mode} |->
                        IF m = mode THEN Append(old, id) ELSE where[m]]
         IN pushAll(next, ms, id, k + 1)

\* addMap with the table chosen without looking at map.user.
addMapIgnoringUser(st, id) ==
    [st EXCEPT !.main = pushAll(st.main, st.maps[id].modes, id, 1)]

\* addMap with a map of no mode entered under modes.NORMAL.
addMapDefaultingMode(st, id) ==
    LET map == st.maps[id]
        ms  == IF map.modes = <<>> THEN <<NORMAL>> ELSE map.modes
    IN  IF map.user
        THEN [st EXCEPT !.user = pushAll(st.user, ms, id, 1)]
        ELSE [st EXCEPT !.main = pushAll(st.main, ms, id, 1)]

\* addMap(map) on the state st = [main, user, maps], for the map with the
\* given id on the heap: map.user chooses the table.
addMap(st, id) ==
    LET map == st.maps[id] IN
    IF map.user
    THEN [st EXCEPT !.user = pushAll(st.user, map.modes, id, 1)]
    ELSE [st EXCEPT !.main = pushAll(st.main, map.modes, id, 1)]

\* getMap(mode, cmd, stack): the first map of the mode with the name, or null.
RECURSIVE getMapFrom(_, _, _, _)
getMapFrom(seq, heap, cmd, i) ==
    IF i > Len(seq) THEN Null
    ELSE IF hasName(heap[seq[i]].names, cmd) THEN seq[i]
         ELSE getMapFrom(seq, heap, cmd, i + 1)

getMap(mode, cmd, stack, heap) == getMapFrom(tableOf(stack, mode), heap, cmd, 1)

\* The index of the first element of names equal to cmd, 0 when there is none.
RECURSIVE nameAt(_, _, _)
nameAt(names, cmd, j) ==
    IF j > Len(names) THEN 0
    ELSE IF names[j] = cmd THEN j ELSE nameAt(names, cmd, j + 1)

\* The index in seq of the first map with a name equal to cmd, 0 when none.
RECURSIVE mapAt(_, _, _, _)
mapAt(seq, heap, cmd, i) ==
    IF i > Len(seq) THEN 0
    ELSE IF nameAt(heap[seq[i]].names, cmd, 1) # 0 THEN i
         ELSE mapAt(seq, heap, cmd, i + 1)

\* removeMap(mode, cmd) on the state st = [main, user, maps]: the first occurrence of
\* the name is spliced out of its map's names, and the map out of the mode's
\* table when no name is left. The names array belongs to the Map object, which
\* the tables of its other modes hold too.
removeMap(st, mode, cmd) ==
    LET seq == tableOf(st.user, mode)
        i   == mapAt(seq, st.maps, cmd, 1)
    IN  IF i = 0 THEN st
        ELSE LET id    == seq[i]
                 j     == nameAt(st.maps[id].names, cmd, 1)
                 names == splice(st.maps[id].names, j)
             IN [main |-> st.main,
                 user |-> IF names = <<>>
                          THEN [st.user EXCEPT ![mode] = splice(seq, i)]
                          ELSE st.user,
                 maps |-> [st.maps EXCEPT ![id].names = names]]

\* ------------------------------------------------------------ public section

\* get with the default table searched before the user table.
getDefaultFirst(mode, cmd) ==
    LET m == IF mode = NoMode THEN NORMAL ELSE mode
        d == getMap(m, cmd, main, maps)
    IN  IF d # Null THEN d ELSE getMap(m, cmd, user, maps)

\* mappings.get(mode, cmd)
get(mode, cmd) ==
    LET m == IF mode = NoMode THEN NORMAL ELSE mode
        u == getMap(m, cmd, user, maps)
    IN  IF u # Null THEN u ELSE getMap(m, cmd, main, maps)

\* mappings.getDefault(mode, cmd)
getDefault(mode, cmd) ==
    LET m == IF mode = NoMode THEN NORMAL ELSE mode
    IN  getMap(m, cmd, main, maps)

\* mappings.hasMap(mode, cmd); user[mode] of a mode without a table is
\* undefined and .some throws a TypeError.
hasMap(mode, cmd) ==
    IF mode \notin DOMAIN user THEN "TypeError"
    ELSE \E i \in 1..Len(user[mode]) : hasName(maps[user[mode][i]].names, cmd)


\* One element of mappingsIterator's filter: modes.every(function (mode)
\* stack[mode].some(...)) over the modes after the first, left to right:
\* "T", "F", or "E" when it reaches a mode without a table (a TypeError).
RECURSIVE everyMode(_, _, _, _, _)
everyMode(id, ms, stack, heap, k) ==
    IF k > Len(ms) THEN "T"
    ELSE IF ms[k] \notin DOMAIN stack THEN "E"
    ELSE IF \E i \in 1..Len(stack[ms[k]]) :
                /\ heap[stack[ms[k]][i]].rhs = heap[id].rhs
                /\ samePrimary(heap[stack[ms[k]][i]].names, heap[id].names)
         THEN everyMode(id, ms, stack, heap, k + 1)
         ELSE "F"

RECURSIVE filterFirst(_, _, _, _, _)
filterFirst(seq, ms, stack, heap, i) ==
    IF i > Len(seq) THEN <<>>
    ELSE LET rest == filterFirst(seq, ms, stack, heap, i + 1)
             e    == everyMode(seq[i], ms, stack, heap, 2)
         IN  IF e = "T" THEN <<seq[i]>> \o rest ELSE rest

\* mappingsIterator(modes, stack), read to its end: the maps of the first mode
\* that all the other modes match in rhs and names[0], in table order.
mappingsIterator(ms, stack, heap) ==
    IF \/ ms = <<>>
       \/ ms[1] \notin DOMAIN stack
       \/ \E i \in 1..Len(stack[ms[1]]) :
              everyMode(stack[ms[1]][i], ms, stack, heap, 2) = "E"
    THEN "TypeError"
    ELSE filterFirst(stack[ms[1]], ms, stack, heap, 1)

\* mappings.getUserIterator(mode)
getUserIterator(ms) == mappingsIterator(ms, user, maps)

\* The inner loop with a name as long as the prefix accepted (>= for >).
RECURSIVE candidateNamesOrEqual(_, _, _, _)
candidateNamesOrEqual(id, names, prefix, j) ==
    IF j > Len(names) THEN <<>>
    ELSE LET rest == candidateNamesOrEqual(id, names, prefix, j + 1) IN
         IF /\ StartsWith(names[j], prefix)
            /\ Len(names[j]) >= Len(prefix)
            /\ (prefix # <<"<">> \/ ~LooksBracketed(names[j]))
         THEN <<id>> \o rest
         ELSE rest

\* The inner loop without the test for the prefix "<".
RECURSIVE candidateNamesNoBracketTest(_, _, _, _)
candidateNamesNoBracketTest(id, names, prefix, j) ==
    IF j > Len(names) THEN <<>>
    ELSE LET rest == candidateNamesNoBracketTest(id, names, prefix, j + 1) IN
         IF /\ StartsWith(names[j], prefix)
            /\ Len(names[j]) > Len(prefix)
         THEN <<id>> \o rest
         ELSE rest

\* The inner loop of getCandidates: one push for every name that qualifies.
RECURSIVE candidateNames(_, _, _, _)
candidateNames(id, names, prefix, j) ==
    IF j > Len(names) THEN <<>>
    ELSE LET rest == candidateNames(id, names, prefix, j + 1) IN
         IF /\ StartsWith(names[j], prefix)
            /\ Len(names[j]) > Len(prefix)
            /\ (prefix # <<"<">> \/ ~LooksBracketed(names[j]))
         THEN <<id>> \o rest
         ELSE rest

RECURSIVE candidateMaps(_, _, _)
candidateMaps(seq, prefix, i) ==
    IF i > Len(seq) THEN <<>>
    ELSE candidateNames(seq[i], maps[seq[i]].names, prefix, 1)
         \o candidateMaps(seq, prefix, i + 1)

\* mappings.getCandidates(mode, prefix); user[mode].concat(main[mode]) throws
\* for a mode without a user table, and the loop throws on the undefined
\* element that a mode without a default table leaves in the array.
getCandidates(mode, prefix) ==
    IF mode \notin DOMAIN user \/ mode \notin DOMAIN main THEN "TypeError"
    ELSE candidateMaps(user[mode] \o main[mode], prefix, 1)

\* ----------------------------------------------------------------- actions

\* The tables and the heap as one value, for the helpers that change them.
state == [main |-> main, user |-> user, maps |-> maps]

NoOp == [op |-> "init", modes |-> <<>>, name |-> <<>>, map |-> Null, args |-> <<>>]
NoReturn == [kind |-> "none", val |-> ""]

\* mappings.add(modes, keys, description, action, extra)
add(ms, keys, action, extra) ==
    /\ Len(maps) < MaxMaps
    /\ LET map == Map(ms, keys, action, extra)
           id  == Len(maps) + 1
           st  == addMap([state EXCEPT !.maps = Append(maps, map)], id)
       IN  /\ main' = st.main
           /\ user' = st.user
           /\ maps' = st.maps
           /\ lastOp' = [op |-> "add", modes |-> ms, name |-> <<>>, map |-> id,
                  args |-> <<>>]
    /\ invoked' = <<>>
    /\ returned' = NoReturn
    /\ UNCHANGED <<repeat, mapleader>>

\* The loops of addUserMap: removeMap(mode, name) for every name of the new
\* map (outer loop, index j) and every mode of it (inner loop, index k).
RECURSIVE removeOld(_, _, _, _, _)
removeOld(st, names, ms, j, k) ==
    IF j > Len(names) THEN st
    ELSE IF k > Len(ms) THEN removeOld(st, names, ms, j + 1, 1)
    ELSE removeOld(removeMap(st, ms[k], names[j]), names, ms, j, k + 1)

\* mappings.addUserMap(modes, keys, description, action, extra)
addUserMap(ms, keys, action, extra) ==
    /\ Len(maps) < MaxMaps
    /\ LET expanded == [i \in 1..Len(keys) |-> expandLeader(keys[i])]
           map == Map(ms, expanded, action, [extra EXCEPT !.user = TRUE])
           id  == Len(maps) + 1
           old == removeOld(state, map.names, map.modes, 1, 1)
           st  == addMap([old EXCEPT !.maps = Append(old.maps, map)], id)
       IN  /\ main' = st.main
           /\ user' = st.user
           /\ maps' = st.maps
           /\ lastOp' = [op |-> "addUserMap", modes |-> ms, name |-> <<>>, map |-> id,
                  args |-> <<>>]
    /\ invoked' = <<>>
    /\ returned' = NoReturn
    /\ UNCHANGED <<repeat, mapleader>>

\* mappings.remove(mode, cmd). lastOp.map is the map that had the name.
remove(mode, cmd) ==
    /\ LET st == removeMap(state, mode, cmd)
       IN  /\ main' = st.main
           /\ user' = st.user
           /\ maps' = st.maps
    /\ lastOp' = [op |-> "remove", modes |-> <<mode>>, name |-> cmd,
                  map |-> getMap(mode, cmd, user, maps), args |-> <<>>]
    /\ invoked' = <<>>
    /\ returned' = NoReturn
    /\ UNCHANGED <<repeat, mapleader>>

\* removeAll that replaces the whole user array instead of one mode's table.
removeAllModes(mode) ==
    /\ user' = [m \in DOMAIN user \cup {mode} |-> <<>>]
    /\ lastOp' = [op |-> "removeAll", modes |-> <<mode>>, name |-> <<>>, map |-> Null,
                  args |-> <<>>]
    /\ invoked' = <<>>
    /\ returned' = NoReturn
    /\ UNCHANGED <<main, maps, repeat, mapleader>>

\* mappings.removeAll(mode)
removeAll(mode) ==
    /\ user' = [m \in DOMAIN user \cup {mode} |-> IF m = mode THEN <<>> ELSE user[m]]
    /\ lastOp' = [op |-> "removeAll", modes |-> <<mode>>, name |-> <<>>, map |-> Null,
                  args |-> <<>>]
    /\ invoked' = <<>>
    /\ returned' = NoReturn
    /\ UNCHANGED <<main, maps, repeat, mapleader>>

\* mappings.addMode(mode)
addMode(mode) ==
    /\ IF mode \notin DOMAIN user /\ mode \notin DOMAIN main
       THEN /\ main' = [m \in DOMAIN main \cup {mode} |-> IF m = mode THEN <<>> ELSE main[m]]
            /\ user' = [m \in DOMAIN user \cup {mode} |-> IF m = mode THEN <<>> ELSE user[m]]
       ELSE UNCHANGED <<main, user>>
    /\ lastOp' = [op |-> "addMode", modes |-> <<mode>>, name |-> <<>>, map |-> Null,
                  args |-> <<>>]
    /\ invoked' = <<>>
    /\ returned' = NoReturn
    /\ UNCHANGED <<maps, repeat, mapleader>>

\* The argument list with the count pushed before the motion.
executeArgsCountFirst(map, motion, count, argument) ==
    (IF map.count THEN <<count>> ELSE <<>>)
    \o (IF map.motion THEN <<motion>> ELSE <<>>)
    \o (IF map.arg THEN <<argument>> ELSE <<>>)

\* The argument list of Map.prototype.execute.
executeArgs(map, motion, count, argument) ==
    (IF map.motion THEN <<motion>> ELSE <<>>)
    \o (IF map.count THEN <<count>> ELSE <<>>)
    \o (IF map.arg THEN <<argument>> ELSE <<>>)

\* mappings.repeat set without the test of names[0].
executeRepeatAlways(id, args) == <<[self |-> id, args |-> args]>>

\* What execute stores in mappings.repeat.
executeRepeat(id, args) ==
    IF primaryIsNot(maps[id].names, Dot)
    THEN <<[self |-> id, args |-> args]>>
    ELSE repeat

\* action.apply(self, args): the call as the action sees it, with the outcome
\* the action produces.
apply(self, action, args, outcome) ==
    [this |-> self, action |-> action, args |-> args, outcome |-> outcome]

\* execute catching what the action throws and returning nothing instead.
executeReturnCatching(call) ==
    IF call.outcome.kind = "throw" THEN NoReturn ELSE call.outcome

\* What execute hands its caller: the outcome of its call of the action.
executeReturn(call) == call.outcome

\* Map.prototype.execute(motion, count, argument) on the Map object id. The
\* action is the caller's code: it returns a value or throws (outcome).
execute(id, motion, count, argument, outcome) ==
    /\ id \in 1..Len(maps)
    /\ LET args == executeArgs(maps[id], motion, count, argument)
           call == apply(id, maps[id].action, args, outcome)
       IN  /\ repeat' = executeRepeat(id, args)
           /\ invoked' = <<call>>
           /\ returned' = executeReturn(call)
    /\ lastOp' = [op |-> "execute", modes |-> <<>>, name |-> <<>>, map |-> id,
                  args |-> <<motion, count, argument>>]
    /\ UNCHANGED <<main, user, maps, mapleader>>

\* mappings.repeat(): the closure function () self.action.apply(self, args).
repeatCall(outcome) ==
    /\ repeat # <<>>
    /\ LET c == repeat[1]
       IN  invoked' = <<apply(c.self, maps[c.self].action, c.args, outcome)>>
    /\ returned' = outcome
    /\ lastOp' = [op |-> "repeat", modes |-> <<>>, name |-> <<>>, map |-> repeat[1].self,
                  args |-> <<>>]
    /\ UNCHANGED <<main, user, maps, repeat, mapleader>>

\* The variable "mapleader" that liberator.variableReference looks up is given
\* the value leader (:let mapleader = ...).
letMapLeader(leader) ==
    /\ mapleader' = {leader}
    /\ lastOp' = [op |-> "let", modes |-> <<>>, name |-> leader, map |-> Null,
                  args |-> <<>>]
    /\ invoked' = <<>>
    /\ returned' = NoReturn
    /\ UNCHANGED <<main, user, maps, repeat>>

\* The variable "mapleader" is deleted (:unlet mapleader).
unletMapLeader ==
    /\ mapleader # {}
    /\ mapleader' = {}
    /\ lastOp' = [op |-> "unlet", modes |-> <<>>, name |-> <<>>, map |-> Null,
                  args |-> <<>>]
    /\ invoked' = <<>>
    /\ returned' = NoReturn
    /\ UNCHANGED <<main, user, maps, repeat>>

Range(seq) == {seq[i] : i \in 1..Len(seq)}

\* ------------------------------------------------------------ map commands

\* The names of the commands addMapCommands makes, as character sequences.
CmdMap == <<"m", "a", "p">>
CmdNoremap == <<"n", "o", "r", "e", "m", "a", "p">>
CmdNmap == <<"n">> \o CmdMap
CmdNnoremap == <<"n">> \o CmdNoremap
CmdVmap == <<"v">> \o CmdMap
CmdVnoremap == <<"v">> \o CmdNoremap

\* The commands with their modes: addMapCommands("", [NORMAL, VISUAL], "") and
\* addMapCommands(mode.char, ...) for the modes of char "n" and "v".
mapCommands ==
    {[name |-> CmdMap, modes |-> <<NORMAL, VISUAL>>, noremap |-> FALSE],
     [name |-> CmdNoremap, modes |-> <<NORMAL, VISUAL>>, noremap |-> TRUE],
     [name |-> CmdNmap, modes |-> <<NORMAL>>, noremap |-> FALSE],
     [name |-> CmdNnoremap, modes |-> <<NORMAL>>, noremap |-> TRUE],
     [name |-> CmdVmap, modes |-> <<VISUAL>>, noremap |-> FALSE],
     [name |-> CmdVnoremap, modes |-> <<VISUAL>>, noremap |-> TRUE]}

\* /^<Nop>$/i.test(rhs)
isNop(rhs) == LowerStr(rhs) = <<"<", "n", "o", "p", ">">>

\* this.name.indexOf("noremap") > -1
nameHasNoremap(name) ==
    \E i \in 1..Len(name) :
        /\ i + Len(CmdNoremap) - 1 <= Len(name)
        /\ SubSeq(name, i, i + Len(CmdNoremap) - 1) = CmdNoremap

\* /^[nv](nore)?map$/.test(cmd)
isCharMapName(cmd) ==
    /\ cmd # <<>>
    /\ cmd[1] \in {"n", "v"}
    /\ Tail(cmd) \in {CmdMap, CmdNoremap}

\* isMultiMode(map, cmd)
isMultiMode(map, cmd) ==
    /\ hasName(map.modes, NORMAL)
    /\ hasName(map.modes, VISUAL)
    /\ isCharMapName(cmd)

\* The filter of serial: map.rhs && map.noremap == noremap &&
\* !isMultiMode(map, this.name).
serialKeeps(map, name) ==
    /\ map.rhs # <<>>
    /\ map.noremap = nameHasNoremap(name)
    /\ ~isMultiMode(map, name)

RECURSIVE serialFrom(_, _, _, _)
serialFrom(seq, heap, name, i) ==
    IF i > Len(seq) THEN <<>>
    ELSE (IF serialKeeps(heap[seq[i]], name) THEN <<seq[i]>> ELSE <<>>)
         \o serialFrom(seq, heap, name, i + 1)

\* The maps the serial function of a command emits, in order.
serialMaps(cmd) ==
    LET it == mappingsIterator(cmd.modes, user, maps)
    IN  IF it = "TypeError" THEN it ELSE serialFrom(it, maps, cmd.name, 1)

\* opts.serial of the command cmd: one entry for each map emitted. names[0] of
\* a map without names is undefined (<<>>).
serial(cmd) ==
    LET ids == serialMaps(cmd)
    IN  IF ids = "TypeError" THEN ids
        ELSE [i \in 1..Len(ids) |->
                [command    |-> cmd.name,
                 arguments  |-> <<IF maps[ids[i]].names = <<>> THEN <<>>
                                  ELSE maps[ids[i]].names[1]>>,
                 literalArg |-> maps[ids[i]].rhs]]

\* map(args, modes, noremap) with a lhs and a rhs: the user binding that feeds
\* the keys of rhs.
mapCommand(cmd, lhs, rhs) ==
    /\ rhs # <<>>
    /\ addUserMap(cmd.modes, <<lhs>>, "feedkeys",
                  [NoExtra EXCEPT !.count = TRUE,
                                  !.rhs = canonicalKeys(rhs),
                                  !.noremap = cmd.noremap \/ isNop(rhs)])

\* The loop of the unmap command over modes[i..]: remove in each mode that
\* hasMap finds the name in; found tells whether any did.
RECURSIVE unmapFrom(_, _, _, _, _)
unmapFrom(st, ms, args, i, found) ==
    IF i > Len(ms) THEN [st |-> st, found |-> found]
    ELSE LET seq == st.user[ms[i]]
         IN  IF \E k \in 1..Len(seq) : hasName(st.maps[seq[k]].names, args)
             THEN unmapFrom(removeMap(st, ms[i], args), ms, args, i + 1, TRUE)
             ELSE unmapFrom(st, ms, args, i + 1, found)

\* The unmap command of the modes ms with the argument args.
unmapCommand(ms, args) ==
    /\ \A i \in 1..Len(ms) : ms[i] \in DOMAIN user
    /\ LET r == unmapFrom(state, ms, args, 1, FALSE)
       IN  /\ main' = r.st.main
           /\ user' = r.st.user
           /\ maps' = r.st.maps
           /\ returned' = IF r.found THEN NoReturn
                          ELSE [kind |-> "echoerr", val |-> "E31: No such mapping"]
    /\ lastOp' = [op |-> "unmap", modes |-> ms, name |-> args, map |-> Null,
                  args |-> <<>>]
    /\ invoked' = <<>>
    /\ UNCHANGED <<repeat, mapleader>>

\* The mapclear command of the modes ms: removeAll for each of them.
mapclearCommand(ms) ==
    /\ user' = [m \in DOMAIN user \cup Range(ms) |->
                    IF m \in Range(ms) THEN <<>> ELSE user[m]]
    /\ lastOp' = [op |-> "mapclear", modes |-> ms, name |-> <<>>, map |-> Null,
                  args |-> <<>>]
    /\ invoked' = <<>>
    /\ returned' = NoReturn
    /\ UNCHANGED <<main, maps, repeat, mapleader>>

\* ----------------------------------------------------------- initial state

\* The state Mappings() returns: an empty table for every known mode.
Init ==
    /\ main = [m \in modes |-> <<>>]
    /\ user = [m \in modes |-> <<>>]
    /\ maps = <<>>
    /\ repeat = <<>>
    /\ invoked = <<>>
    /\ returned = NoReturn
    /\ mapleader = {}
    /\ lastOp = NoOp

\* --------------------------------------------- the mapping tables (Spec)

\* Key strings as callers write them: "<C-x>", "<c-x>" and "b".
KeyCx == <<"<", "C", "-", "x", ">">>
KeycX == <<"<", "c", "-", "x", ">">>
KeyB == <<"b">>

\* The keys arguments of addUserMap: one name (one of them in a spelling that
\* is not canonical), two names, and one name twice.
UserKeyLists == {<<KeycX>>, <<KeyB>>, <<KeyCx, KeyB>>, <<KeyCx, KeyCx>>}
UserModeLists == {<<NORMAL>>, <<VISUAL>>, <<NORMAL, VISUAL>>}
DefaultKeyLists == {<<KeyCx>>}
DefaultModeLists == {<<NORMAL>>, <<NORMAL, VISUAL>>}
\* The names remove() is called with.
Names == {KeyCx, KeyB}

Add ==
    \E ms \in DefaultModeLists, keys \in DefaultKeyLists :
        add(ms, keys, "f", NoExtra)

AddUserMap ==
    \E ms \in UserModeLists, keys \in UserKeyLists :
        addUserMap(ms, keys, "g", NoExtra)

Remove == \E mode \in modes, cmd \in Names : remove(mode, cmd)

RemoveAll == \E mode \in modes : removeAll(mode)

AddMode == \E mode \in modes : addMode(mode)

Next == Add \/ AddUserMap \/ Remove \/ RemoveAll \/ AddMode

Spec == Init /\ [][Next]_vars

\* ------------------------------------------------- properties of the tables

\* The positions in a table of the maps that have the name.
Holders(seq, n) == {i \in 1..Len(seq) : n \in Range(maps[seq[i]].names)}

Least(S) == CHOOSE i \in S : \A k \in S : i <= k

\* The names looked up: the canonical names and a spelling that is not one.
QueryNames == {KeyCx, KeycX, KeyB}

\* C1: after addUserMap has registered a binding b2, every mode m of b2 holds
\* exactly one user binding for every name n of b2, and get(m, n) is b2: a
\* binding b1 registered earlier under (m, n), whatever its list of names, is
\* no longer reachable by that name.
C1_LastDefinitionWins ==
    lastOp.op = "addUserMap" =>
        \A m \in Range(maps[lastOp.map].modes), n \in Range(maps[lastOp.map].names) :
            /\ Cardinality(Holders(user[m], n)) = 1
            /\ get(m, n) = lastOp.map

\* C2: get(m, n) is the first user binding of m with the name n when there is
\* one, whatever the default table holds; else the first default binding of m
\* with the name; and null only when neither table of m has the name.
C2_UserShadowsDefault ==
    \A m \in modes, n \in QueryNames :
        get(m, n) =
            IF Holders(user[m], n) # {} THEN user[m][Least(Holders(user[m], n))]
            ELSE IF Holders(main[m], n) # {} THEN main[m][Least(Holders(main[m], n))]
            ELSE Null

\* A state in which a user binding shadows a default binding of the same name.
C2_Witness ==
    \E m \in modes, n \in QueryNames :
        /\ Holders(user[m], n) # {}
        /\ Holders(main[m], n) # {}
        /\ get(m, n) # getDefault(m, n)

\* C3: right after remove(m, n), no user binding of m has the name n, and
\* get(m, n) is what getDefault(m, n) gives (null when there is no default).
C3_RemoveUnbinds ==
    lastOp.op = "remove" =>
        /\ hasMap(lastOp.modes[1], lastOp.name) = FALSE
        /\ get(lastOp.modes[1], lastOp.name) = getDefault(lastOp.modes[1], lastOp.name)

\* C4: addUserMap, remove and removeAll leave the default table of every mode
\* and the names of every default binding as they were, so getDefault gives
\* the same result before and after.
C4_DefaultTableFrame ==
    [][lastOp'.op \in {"addUserMap", "remove", "removeAll"} =>
        /\ main' = main
        /\ \A m \in DOMAIN main : \A i \in 1..Len(main[m]) :
               maps'[main[m][i]].names = maps[main[m][i]].names
        /\ \A m \in modes, n \in QueryNames : getDefault(m, n)' = getDefault(m, n)
      ]_vars

\* A user operation has acted on a name that a default binding has too: a
\* remove that took the name from a user binding, the default one still there.
C4_Witness ==
    /\ lastOp.op = "remove"
    /\ lastOp.map # Null
    /\ getDefault(lastOp.modes[1], lastOp.name) # Null

\* C5: removeAll(m) leaves no user binding in m, so that hasMap(m, n) is false
\* and get(m, n) is getDefault(m, n) for every n, and it leaves the user table
\* and the lookups of every other mode as they were.
C5_RemoveAllFrame ==
    [][\A m \in modes :
        lastOp'.op = "removeAll" /\ lastOp'.modes = <<m>> =>
        /\ user'[m] = <<>>
        /\ \A n \in QueryNames :
               /\ hasMap(m, n)' = FALSE
               /\ get(m, n)' = getDefault(m, n)'
        /\ \A o \in DOMAIN user \ {m} :
               /\ user'[o] = user[o]
               /\ \A n \in QueryNames : get(o, n)' = get(o, n)
      ]_vars

\* removeAll(m) has dropped a user binding of m that still had a name, while
\* m has a default binding and another mode still has user bindings.
C5_Witness ==
    /\ lastOp.op = "removeAll"
    /\ \E id \in 1..Len(maps) :
           /\ maps[id].user
           /\ maps[id].names # <<>>
           /\ lastOp.modes[1] \in Range(maps[id].modes)
           /\ id \notin Range(user[lastOp.modes[1]])
    /\ \E n \in QueryNames : getDefault(lastOp.modes[1], n) # Null
    /\ \E o \in modes \ {lastOp.modes[1]} : user[o] # <<>>

\* ------------------------------------------- execute and repeat (SpecExecute)

KeyJ == <<"j">>
\* The values execute is called with; a count is written as its digits.
Motions == {"w"}
Counts == {"5", "-1"}
Arguments == {"x"}
\* What an action does when called: it returns a value or throws.
Outcomes == {[kind |-> "return", val |-> "done"], [kind |-> "throw", val |-> "error"]}
\* The eight combinations of the motion, count and arg options.
Options ==
    {[NoExtra EXCEPT !.motion = m, !.count = c, !.arg = a] :
        m \in BOOLEAN, c \in BOOLEAN, a \in BOOLEAN}

ExecAdd ==
    \E keys \in {<<Dot>>, <<KeyJ>>}, extra \in Options :
        add(<<NORMAL>>, keys, "f", extra)

\* A user mapping as the :map command makes it (count: true), with "." as the
\* first of two names.
ExecAddUserMap ==
    addUserMap(<<NORMAL>>, <<Dot, KeyJ>>, "g", [NoExtra EXCEPT !.count = TRUE])

ExecRemove == remove(NORMAL, Dot)

Execute ==
    \E id \in 1..Len(maps), motion \in Motions, count \in Counts,
       argument \in Arguments, outcome \in Outcomes :
        execute(id, motion, count, argument, outcome)

Repeat == \E outcome \in Outcomes : repeatCall(outcome)

NextExecute == ExecAdd \/ ExecAddUserMap \/ ExecRemove \/ Execute \/ Repeat

SpecExecute == Init /\ [][NextExecute]_vars

\* The call that invoking a closure stored in mappings.repeat makes.
Replay(closure, heap) ==
    [this |-> closure.self, action |-> heap[closure.self].action, args |-> closure.args]

CallOf(call) == [this |-> call.this, action |-> call.action, args |-> call.args]

\* C6: execute on a binding whose names[0] is not "." puts into the repeat
\* slot a closure whose call is the call execute has just made (the same
\* action on the same binding with the same argument list); execute on a
\* binding whose names[0] is "." leaves the slot as it was, and so does every
\* operation other than execute.
C6_RepeatSlot ==
    [][/\ lastOp'.op = "execute" =>
            IF maps[lastOp'.map].names # <<>> /\ maps[lastOp'.map].names[1] = Dot
            THEN repeat' = repeat
            ELSE /\ Len(repeat') = 1
                 /\ Len(invoked') = 1
                 /\ Replay(repeat'[1], maps') = CallOf(invoked'[1])
                 /\ repeat'[1].self = lastOp'.map
       /\ lastOp'.op # "execute" => repeat' = repeat
      ]_vars

\* execute has run on a "." binding while the slot holds the call of an
\* earlier execute on another binding.
C6_Witness ==
    /\ lastOp.op = "execute"
    /\ maps[lastOp.map].names # <<>>
    /\ maps[lastOp.map].names[1] = Dot
    /\ repeat # <<>>
    /\ repeat[1].self # lastOp.map

\* The argument list of execute(motion, count, argument), one case for each
\* combination of the three options.
ExpectedArgs(map, given) ==
    CASE  map.motion /\  map.count /\  map.arg -> <<given[1], given[2], given[3]>>
      []  map.motion /\  map.count /\ ~map.arg -> <<given[1], given[2]>>
      []  map.motion /\ ~map.count /\  map.arg -> <<given[1], given[3]>>
      []  map.motion /\ ~map.count /\ ~map.arg -> <<given[1]>>
      [] ~map.motion /\  map.count /\  map.arg -> <<given[2], given[3]>>
      [] ~map.motion /\  map.count /\ ~map.arg -> <<given[2]>>
      [] ~map.motion /\ ~map.count /\  map.arg -> <<given[3]>>
      [] ~map.motion /\ ~map.count /\ ~map.arg -> <<>>

\* C7: execute(motion, count, argument) calls the action of the binding once,
\* on the binding, with motion, count and argument in this order, each only
\* when the binding accepts it, and gives back what the call gave.
C7_ExecuteArguments ==
    lastOp.op = "execute" =>
        /\ Len(invoked) = 1
        /\ invoked[1].this = lastOp.map
        /\ invoked[1].action = maps[lastOp.map].action
        /\ invoked[1].args = ExpectedArgs(maps[lastOp.map], lastOp.args)
        /\ returned = invoked[1].outcome

\* execute("w", "5", "x") on a binding that accepts a motion and a count and
\* no argument has called the action with ["w", "5"] and returned its value.
C7_Witness ==
    /\ lastOp.op = "execute"
    /\ lastOp.args = <<"w", "5", "x">>
    /\ maps[lastOp.map].motion /\ maps[lastOp.map].count /\ ~maps[lastOp.map].arg
    /\ invoked[1].args = <<"w", "5">>
    /\ returned.kind = "return"

\* C12: when the action of a binding throws during execute, execute has called
\* it once only and what it threw reaches the caller of execute as it is; the
\* repeat slot holds this very call all the same when names[0] is not ".".
C12_ActionFailurePropagates ==
    (lastOp.op = "execute" /\ invoked # <<>> /\ invoked[1].outcome.kind = "throw") =>
        /\ Len(invoked) = 1
        /\ returned.kind = "throw"
        /\ returned.val = invoked[1].outcome.val
        /\ (maps[lastOp.map].names = <<>> \/ maps[lastOp.map].names[1] # Dot) =>
                repeat = <<[self |-> lastOp.map, args |-> invoked[1].args]>>

\* The action of a binding named other than "." has thrown during execute,
\* the caller has the error and the repeat slot has the call.
C12_Witness ==
    /\ lastOp.op = "execute"
    /\ returned = [kind |-> "throw", val |-> "error"]
    /\ maps[lastOp.map].names # <<>>
    /\ maps[lastOp.map].names[1] # Dot
    /\ repeat # <<>>
    /\ repeat[1].self = lastOp.map

\* ------------------------------------------ getCandidates (SpecCandidates)

KeyD == <<"d">>
KeyDw == <<"d", "w">>
KeyDd == <<"d", "d">>
KeyLt == <<"<">>
KeyLtA == <<"<", "a">>
KeyLtGt == <<"<", ">">>

CandUserKeyLists ==
    {<<KeyD>>, <<KeyDw>>, <<KeyD, KeyDd>>, <<KeyLt>>, <<KeyLtA>>, <<KeyCx>>,
     <<KeyCx, KeyLtA>>}
CandDefaultKeyLists == {<<KeyDd>>, <<KeyDw, KeyDd>>, <<KeyCx>>, <<KeyLtGt>>}
\* The prefixes getCandidates is called with.
Prefixes == {<<>>, KeyD, KeyDw, KeyLt, <<"<", "C">>}

CandAdd == \E keys \in CandDefaultKeyLists : add(<<NORMAL>>, keys, "f", NoExtra)

CandAddUserMap == \E keys \in CandUserKeyLists : addUserMap(<<NORMAL>>, keys, "g", NoExtra)

CandRemoveAll == removeAll(NORMAL)

NextCandidates == CandAdd \/ CandAddUserMap \/ CandRemoveAll

SpecCandidates == Init /\ [][NextCandidates]_vars

\* The bindings of a mode, of both tables.
BindingsOf(m) == Range(user[m]) \cup Range(main[m])

\* name starts with prefix and is longer.
ProperPrefix(prefix, name) ==
    /\ Len(name) > Len(prefix)
    /\ \A k \in 1..Len(prefix) : name[k] = prefix[k]

\* name matches ^<.+> : "<", then k >= 1 characters, then ">".
BracketedToken(name) ==
    /\ name # <<>>
    /\ name[1] = "<"
    /\ \E k \in 1..(Len(name) - 2) : name[k + 2] = ">"

\* C8: for a prefix other than "<", getCandidates(m, prefix) holds exactly the
\* bindings of m, of either table, with a name that starts with the prefix
\* and is longer than it; a binding whose only matching names equal the
\* prefix is not among them.
C8_Candidates ==
    \A prefix \in Prefixes \ {KeyLt} :
        Range(getCandidates(NORMAL, prefix)) =
            {id \in BindingsOf(NORMAL) :
                \E n \in Range(maps[id].names) : ProperPrefix(prefix, n)}

\* Bindings named "d", "dw" and "dd" are registered: the candidates of "d"
\* are the bindings of "dw" and of "dd" and not the binding of "d".
C8_Witness ==
    /\ \E id \in BindingsOf(NORMAL) :
           /\ maps[id].names = <<KeyD>>
           /\ id \notin Range(getCandidates(NORMAL, KeyD))
    /\ \E id \in BindingsOf(NORMAL) :
           /\ KeyDw \in Range(maps[id].names)
           /\ KeyDd \in Range(maps[id].names)
           /\ id \in Range(getCandidates(NORMAL, KeyD))

\* C9: getCandidates(m, "<") holds exactly the bindings of m with a name that
\* starts with "<", is longer than "<" and does not match ^<.+> : a name such
\* as "<C-x>" brings no binding in, a name such as "<a" does.
C9_CandidatesOfLt ==
    Range(getCandidates(NORMAL, KeyLt)) =
        {id \in BindingsOf(NORMAL) :
            \E n \in Range(maps[id].names) :
                ProperPrefix(KeyLt, n) /\ ~BracketedToken(n)}

\* A binding named "<C-x>" only is left out and a binding named "<a" is a
\* candidate of "<".
C9_Witness ==
    /\ \E id \in BindingsOf(NORMAL) :
           /\ maps[id].names = <<KeyCx>>
           /\ id \notin Range(getCandidates(NORMAL, KeyLt))
    /\ \E id \in BindingsOf(NORMAL) :
           /\ KeyLtA \in Range(maps[id].names)
           /\ id \in Range(getCandidates(NORMAL, KeyLt))

\* ------------------------------------------- the cross-mode view (SpecView)

ViewKeyLists == {<<KeyB>>, <<KeyJ>>, <<KeyB, KeyJ>>}
\* The rhs of a user mapping: none (a mapping to a function) or a literal.
RhsValues == {<<>>, <<"x">>, <<"y">>}
\* The mode lists the view is asked for.
ViewModeLists == {<<NORMAL>>, <<NORMAL, VISUAL>>, <<VISUAL, NORMAL>>}

ViewAddUserMap ==
    \E ms \in UserModeLists, keys \in ViewKeyLists, rhs \in RhsValues :
        addUserMap(ms, keys, "g", [NoExtra EXCEPT !.rhs = rhs])

ViewRemove == \E mode \in modes, cmd \in {KeyB, KeyJ} : remove(mode, cmd)

ViewRemoveAll == \E mode \in modes : removeAll(mode)

NextView == ViewAddUserMap \/ ViewRemove \/ ViewRemoveAll

SpecView == Init /\ [][NextView]_vars

\* names[0], <<>> standing for the undefined of an empty names array.
Primary(id) == IF maps[id].names = <<>> THEN <<>> ELSE maps[id].names[1]

\* Some user binding of mode m has the rhs and the primary name of binding id.
HasCounterpart(m, id) ==
    \E other \in Range(user[m]) :
        maps[other].rhs = maps[id].rhs /\ Primary(other) = Primary(id)

RECURSIVE Keep(_, _)
Keep(seq, ids) ==
    IF seq = <<>> THEN <<>>
    ELSE IF Head(seq) \in ids THEN <<Head(seq)>> \o Keep(Tail(seq), ids)
         ELSE Keep(Tail(seq), ids)

Occurrences(seq, x) == Cardinality({i \in 1..Len(seq) : seq[i] = x})

\* C10, the view: getUserIterator(modeList) yields, in table order, the user
\* bindings of the first mode that have a counterpart in every other mode.
C10_ViewYields ==
    \A ml \in ViewModeLists :
        getUserIterator(ml) =
            Keep(user[ml[1]],
                 {id \in Range(user[ml[1]]) :
                     \A k \in 2..Len(ml) : HasCounterpart(ml[k], id)})

\* C10, registration: a binding just registered under the modes a and b is
\* yielded once by the view of [a, b].
C10_YieldedOnce ==
    lastOp.op = "addUserMap" =>
        \A a \in Range(lastOp.modes), b \in Range(lastOp.modes) :
            a # b => Occurrences(getUserIterator(<<a, b>>), lastOp.map) = 1

\* C10, removal: when remove(b, name) or removeAll(b) has just taken the copy
\* of mode b of a binding registered under a and b, the view of [a, b]
\* yields no entry for the binding.
C10_RemovedNotYielded ==
    lastOp.op \in {"remove", "removeAll"} =>
        \A id \in 1..Len(maps), a \in modes :
            LET b == lastOp.modes[1] IN
            (/\ a # b
             /\ {a, b} \subseteq Range(maps[id].modes)
             /\ lastOp.op = "remove" => lastOp.map = id
             /\ id \notin Range(user[b]))
            => id \notin Range(getUserIterator(<<a, b>>))

\* C10: getUserIterator(modeList) yields exactly the user bindings of the
\* first mode that have a counterpart (same rhs, same names[0]) in every other
\* mode; a binding registered under a and b is yielded once by the view of
\* [a, b], and no longer once its copy in b has been removed.
C10_CrossModeView ==
    /\ C10_ViewYields
    /\ C10_YieldedOnce
    /\ C10_RemovedNotYielded

\* ---------------------------------------------- the set of modes (SpecModes)

\* The modes arguments of add: no mode, a known mode, a mode never added.
ModesOfAdd == {<<>>, <<NORMAL>>, <<PLUGIN>>}
\* The modes that addMode, remove and removeAll are called with.
ModesGiven == {NORMAL, PLUGIN}

ModesAdd == \E ms \in ModesOfAdd : add(ms, <<KeyB>>, "f", NoExtra)

ModesAddUserMap == \E mode \in ModesGiven : addUserMap(<<mode>>, <<KeyB>>, "g", NoExtra)

ModesAddMode == \E mode \in ModesGiven : addMode(mode)

ModesRemove == \E mode \in ModesGiven : remove(mode, KeyB)

ModesRemoveAll == \E mode \in ModesGiven : removeAll(mode)

NextModes ==
    ModesAdd \/ ModesAddUserMap \/ ModesAddMode \/ ModesRemove \/ ModesRemoveAll

SpecModes == Init /\ [][NextModes]_vars

C13_AddModeDefines ==
    lastOp.op = "addMode" =>
        /\ lastOp.modes[1] \in DOMAIN main
        /\ lastOp.modes[1] \in DOMAIN user
        /\ getCandidates(lastOp.modes[1], <<>>) # "TypeError"

\* C13, the second half: addMode for a mode that has a table already changes
\* no table and no binding.
C13_AddModeIdempotent ==
    [][\A m \in ModesGiven :
        (/\ lastOp'.op = "addMode"
         /\ lastOp'.modes = <<m>>
         /\ m \in DOMAIN main \cup DOMAIN user)
        => main' = main /\ user' = user /\ maps' = maps
      ]_vars

\* C14: remove(m, n) on a user binding b of several names takes the name n out
\* of b and nothing else: every other name n' of b stays a name of b and
\* get(m, n') returns b afterwards, b stays in the user table of m, and a
\* remove drops a binding from the user table of m only when it leaves the
\* binding with no name.
C14_RemoveOneName ==
    [][\A m \in modes : \A n \in Names :
        (lastOp'.op = "remove" /\ lastOp'.modes = <<m>> /\ lastOp'.name = n
            /\ lastOp'.map # Null)
        => LET b == lastOp'.map
           IN  /\ Len(maps[b].names) > 1 =>
                    /\ Len(maps'[b].names) = Len(maps[b].names) - 1
                    /\ \A x \in Range(maps[b].names) \ {n} :
                            /\ x \in Range(maps'[b].names)
                            /\ get(m, x)' = b
                    /\ b \in Range(user'[m])
               /\ \A k \in 1..Len(maps) :
                    (k \in Range(user[m]) /\ k \notin Range(user'[m]))
                        => k = b /\ maps'[b].names = <<>>
      ]_vars

\* ------------------------------------------------ the map leader (SpecLeader)

LeaderMixed == <<"<", "L", "e", "a", "d", "e", "r", ">">>
LeaderUpper == <<"<", "L", "E", "A", "D", "E", "R", ">">>

\* The values given to mapleader: two plain ones and one with a "$".
Leaders == {<<",">>, <<";">>, <<"$", "$">>}

\* The names user bindings are registered with: "<Leader>x" and "<LEADER>x".
LeaderKeyLists == {<<LeaderMixed \o <<"x">>>>, <<LeaderUpper \o <<"x">>>>}

LeaderLet == \E leader \in Leaders : letMapLeader(leader)

LeaderUnlet == unletMapLeader

LeaderAddUserMap ==
    \E ms \in {<<NORMAL>>, <<NORMAL, VISUAL>>}, keys \in LeaderKeyLists :
        addUserMap(ms, keys, "f", NoExtra)

LeaderRemove == \E leader \in Leaders : remove(NORMAL, leader \o <<"x">>)

NextLeader == LeaderLet \/ LeaderUnlet \/ LeaderAddUserMap \/ LeaderRemove

SpecLeader == Init /\ [][NextLeader]_vars

\* The texts expandLeader is asked about: what stands before the placeholder,
\* the placeholder as it is spelt (none for a text without one), what follows.
LeaderTexts ==
    [before : {<<>>, <<"g">>},
     token  : {<<>>, LeaderMixed, LeaderUpper, LeaderToken},
     after  : {<<"w">>, <<"<", "C", "-", "x", ">">>}]

\* The current leader string as C15 words it.
CurrentLeader == IF mapleader = {} THEN <<"\\">> ELSE CHOOSE l \in mapleader : TRUE

\* C15: expandLeader(text) is the text with the placeholder <Leader>, in any
\* spelling of upper and lower case, replaced by the current leader string
\* (mapleader, "\" when it is unset) and the rest as it was; a text without
\* the placeholder is returned as it is.
C15_ExpandLeader ==
    \A t \in LeaderTexts :
        expandLeader(t.before \o t.token \o t.after)
            = IF t.token = <<>>
              THEN t.before \o t.after
              ELSE t.before \o CurrentLeader \o t.after

\* C15 for the leaders that have no "$" in them.
C15_ExpandPlainLeader ==
    (\A i \in 1..Len(CurrentLeader) : CurrentLeader[i] # "$") => C15_ExpandLeader


\* The names looked up: a leader, the default one included, followed by "x".
LeaderNames == {l \o <<"x">> : l \in Leaders \cup {DefaultLeader}}

\* Giving mapleader another value, or none, changes no table and no stored
\* binding, and get finds under every name what it found before: a binding
\* stored under the old leader is found under that name and not under the
\* name made of the new leader.
C16_LeaderChangeKeepsBindings ==
    [][lastOp'.op \in {"let", "unlet"} =>
            /\ maps' = maps
            /\ main' = main
            /\ user' = user
            /\ \A m \in modes : \A n \in LeaderNames : get(m, n)' = get(m, n)
      ]_vars

\* C16: the expansion of the leader is made when a binding is registered: a
\* user binding registered with "<Leader>x" under the leader L1 is stored
\* under L1 followed by "x"; after the leader has become L2 it is found by get
\* under the L1 name and not under the L2 name, and no stored binding changes
\* with the leader.
C16_LeaderBakedIn ==
    [][/\ lastOp'.op = "addUserMap" =>
            maps'[lastOp'.map].names = <<CurrentLeader \o <<"x">>>>
       /\ lastOp'.op \in {"let", "unlet"} =>
            /\ maps' = maps
            /\ main' = main
            /\ user' = user
            /\ \A m \in modes : \A n \in LeaderNames :
                    get(m, n)' = get(m, n)
      ]_vars


\* --------------------------------------------- the map commands (SpecCommands)

KeyNop == <<"<", "N", "o", "p", ">">>
\* The right-hand sides given to the map commands.
CommandRhs == {<<"x">>, KeyNop}
\* The mode lists of the unmap and mapclear commands: those of "", "n", "v".
CommandModeLists == {c.modes : c \in mapCommands}
\* The keys arguments of addUserMap called directly: one name twice.
CommandKeyLists == {<<KeyJ, KeyJ>>}

CommandsMap ==
    \E cmd \in mapCommands, rhs \in CommandRhs : mapCommand(cmd, KeyJ, rhs)

CommandsUnmap == \E ms \in CommandModeLists : unmapCommand(ms, KeyJ)

CommandsMapclear == \E ms \in CommandModeLists : mapclearCommand(ms)

CommandsAddUserMap ==
    \E keys \in CommandKeyLists :
        addUserMap(<<NORMAL>>, keys, "g", [NoExtra EXCEPT !.rhs = <<"y">>])

CommandsRemoveAll == \E mode \in modes : removeAll(mode)

NextCommands ==
    \/ CommandsMap
    \/ CommandsUnmap
    \/ CommandsMapclear
    \/ CommandsAddUserMap
    \/ CommandsRemoveAll

SpecCommands == Init /\ [][NextCommands]_vars

\* C17: the unmap command of the modes M with the name n reports "E31: No such
\* mapping" exactly when, before it, hasMap(m, n) is false for every m of M;
\* when it reports no error, hasMap(m, n) is false for every m of M after it.
C17_Unmap ==
    [][\A ms \in CommandModeLists :
        (lastOp'.op = "unmap" /\ lastOp'.modes = ms /\ lastOp'.name = KeyJ) =>
            /\ (returned'.kind = "echoerr")
                    <=> (\A m \in Range(ms) : ~hasMap(m, KeyJ))
            /\ (returned'.kind # "echoerr")
                    => (\A m \in Range(ms) : ~hasMap(m, KeyJ)')
      ]_vars

\* The first half of C17 alone: the error is reported exactly when no mode of
\* M had the name.
C17_ErrorIffNoMapping ==
    [][\A ms \in CommandModeLists :
        (lastOp'.op = "unmap" /\ lastOp'.modes = ms /\ lastOp'.name = KeyJ) =>
            ((returned'.kind = "echoerr")
                    <=> (\A m \in Range(ms) : ~hasMap(m, KeyJ)))
      ]_vars


\* The map commands whose serial function emits the binding id.
EmittedBy(id) ==
    {c \in mapCommands : serialMaps(c) # "TypeError" /\ id \in Range(serialMaps(c))}

\* C20: every user binding with a rhs that get(m, n) returns, m being NORMAL
\* or VISUAL, is emitted by the serial function of a map command whose modes
\* contain m; a binding of both NORMAL and VISUAL that is in the user tables
\* of both is emitted by map or noremap and by no other command.
C20_ExportComplete ==
    \A m \in modes : \A n \in {KeyJ} :
        LET b == get(m, n)
        IN  (b # Null /\ maps[b].user /\ maps[b].rhs # <<>>) =>
                /\ \E c \in EmittedBy(b) : m \in Range(c.modes)
                /\ (/\ hasName(maps[b].modes, NORMAL)
                    /\ hasName(maps[b].modes, VISUAL)
                    /\ b \in Range(user[NORMAL])
                    /\ b \in Range(user[VISUAL]))
                   => \A c \in EmittedBy(b) : c.modes = <<NORMAL, VISUAL>>

\* C20 for the bindings still held by the table of each of their modes.
C20_ExportOfWholeBindings ==
    \A m \in modes : \A n \in {KeyJ} :
        LET b == get(m, n)
        IN  (/\ b # Null /\ maps[b].user /\ maps[b].rhs # <<>>
             /\ \A k \in 1..Len(maps[b].modes) : b \in Range(user[maps[b].modes[k]]))
            => /\ \E c \in EmittedBy(b) : m \in Range(c.modes)
               /\ (hasName(maps[b].modes, NORMAL) /\ hasName(maps[b].modes, VISUAL))
                   => \A c \in EmittedBy(b) : c.modes = <<NORMAL, VISUAL>>


\* ------------------------------------------------ bindings of several modes

\* C18: addUserMap for the modes M and remove(m, n), M being {m}, leave
\* get(m', x) and hasMap(m', x) as they were for every mode m' outside M and
\* every name x.
C18_ModeIsolation ==
    [][\A other \in modes : \A x \in QueryNames :
        (/\ lastOp'.op \in {"addUserMap", "remove"}
         /\ other \notin Range(lastOp'.modes))
        => /\ get(other, x)' = get(other, x)
           /\ hasMap(other, x)' = hasMap(other, x)
      ]_vars

\* C19: every binding in the user table of a mode has a name.
C19_NamesNeverEmpty ==
    \A m \in DOMAIN user : \A i \in 1..Len(user[m]) : maps[user[m][i]].names # <<>>

====
